---- MODULE Spec2Model ----
(***************************************************************************)
(* A model of the byte pair encoding library of DP_BPE (src/bpe/__init__.py):*)
(* Word, Bigram, Vocabulary, Statistics, BPEModel, train_model,            *)
(* encode_text and decode_subwords.                                        *)
(*                                                                         *)
(* A character is a one-character string; a token, a subword (symbol) and  *)
(* a text are sequences of characters, so that concatenation, splitting    *)
(* and replacement are computed and not assumed.  A Bigram is a Python     *)
(* object: the bigram dictionary and the search set both hold references   *)
(* to it, so the objects live in statistics.objects under an identity and  *)
(* the dictionary and the search set hold identities.                      *)
(***************************************************************************)
EXTENDS Integers, Sequences, FiniteSets, TLC

\* ------------------------------------------------------------------ bounds
MaxTokenLen == 3
MaxWords == 2
MaxWeight == 1
MaxSubwords == 7
MaxOperations == 2
MaxTextLen == 3
MaxCorpus == 2
\* The thresholds and the adaptation parameters set_threshold is applied to
\* outside the trainer.
\* The lines of a text file after the first have at most MaxNextLen
\* characters, unless they repeat the first line.
MaxNextLen == 1
MaxThreshold == 8
MaxAdaptation == 3

\* The characters tokens are made of, and the end-of-token symbol.
Chars == {"A", "B"}
EndOfToken == "_"

SEARCH_SET_TARGET_SIZE == 100

\* ----------------------------------------------------------------- helpers
None == << >>
Some(x) == << x >>

EmptyMap == [x \in {} |-> 0]

Range(s) == {s[k] : k \in DOMAIN s}

Max2(x, y) == IF x >= y THEN x ELSE y
Min2(x, y) == IF x <= y THEN x ELSE y

RECURSIVE SeqOf(_)
\* The elements of a finite set in some fixed order (the order of a dict or
\* of a loop over it, where the order has no effect on the result).
SeqOf(S) ==
    IF S = {} THEN << >>
    ELSE LET x == CHOOSE y \in S : TRUE IN << x >> \o SeqOf(S \ {x})

RECURSIVE SumSeq(_)
SumSeq(s) == IF s = << >> THEN 0 ELSE Head(s) + SumSeq(Tail(s))

\* Sum of the values of a finite map.
SumMap(f) == SumSeq([k \in 1..Len(SeqOf(DOMAIN f)) |-> f[SeqOf(DOMAIN f)[k]]])

\* f with key k set to v (k may be new).
Put(f, k, v) == [x \in (DOMAIN f) \cup {k} |-> IF x = k THEN v ELSE f[x]]

\* f without key k.
Del(f, k) == [x \in (DOMAIN f) \ {k} |-> f[x]]

\* ceil(n / d) for an integer n and d > 0.
Ceil(n, d) == -((-n) \div d)

RECURSIVE Pow2(_)
Pow2(n) == IF n = 0 THEN 1 ELSE 2 * Pow2(n - 1)

RECURSIVE Concat(_)
\* ''.join(subwords): the characters of a sequence of subwords.
Concat(subwords) ==
    IF subwords = << >> THEN << >>
    ELSE Head(subwords) \o Concat(Tail(subwords))

\* -------------------------------------------------------------------- Word
\* list(token) + ['_']
Characters(token) ==
    [k \in 1..(Len(token) + 1) |->
        IF k <= Len(token) THEN << token[k] >> ELSE << EndOfToken >>]

Word(token) == [token |-> token, frequency |-> 0, subwords |-> Characters(token)]

update_frequency(word, n) == [word EXCEPT !.frequency = @ + n]

\* MergeAt with the bug of deleting subwords[i + 1] and leaving subwords[i].
MergeAt_KeepsFirst(subwords, k) ==
    [j \in 1..(Len(subwords) - 1) |->
        IF j <= k THEN subwords[j] ELSE subwords[j + 1]]

\* del subwords[i + 1] after subwords[i] = subword_a + subword_b (1-based k).
MergeAt(subwords, k) ==
    [j \in 1..(Len(subwords) - 1) |->
        IF j < k THEN subwords[j]
        ELSE IF j = k THEN subwords[k] \o subwords[k + 1]
        ELSE subwords[j + 1]]

RECURSIVE ApplyOperation(_, _, _)
\* The while loop of Word.apply_model for one operation; k is i + 1.
ApplyOperation(subwords, subword_pair, k) ==
    IF k < Len(subwords)
    THEN IF subwords[k] = subword_pair[1] /\ subwords[k + 1] = subword_pair[2]
         THEN ApplyOperation(MergeAt(subwords, k), subword_pair, k + 1)
         ELSE ApplyOperation(subwords, subword_pair, k + 1)
    ELSE subwords

RECURSIVE apply_model_Reversed(_, _)
\* apply_model with the bug of running through the operations last to first.
apply_model_Reversed(subwords, operations) ==
    IF operations = << >> THEN subwords
    ELSE ApplyOperation(apply_model_Reversed(subwords, Tail(operations)),
                        Head(operations), 1)

RECURSIVE apply_model(_, _)
\* Word.apply_model: every operation in order, each over the whole mapping.
apply_model(subwords, operations) ==
    IF operations = << >> THEN subwords
    ELSE apply_model(ApplyOperation(subwords, Head(operations), 1), Tail(operations))

\* ------------------------------------------------------------------ Bigram
Bigram(subword_pair) ==
    [subword_pair |-> subword_pair, frequency |-> 0,
     token_frequency |-> EmptyMap, in_search_set |-> FALSE]

\* token_frequency is a defaultdict(int): a missing token reads 0.
Count(token_frequency, token) ==
    IF token \in DOMAIN token_frequency THEN token_frequency[token] ELSE 0

update_token_frequencies(bigram, token_updates) ==
    LET tokens == (DOMAIN bigram.token_frequency) \cup (DOMAIN token_updates)
        new(t) == Count(bigram.token_frequency, t) + Count(token_updates, t)
        kept == {t \in tokens : t \notin DOMAIN token_updates \/ new(t) # 0}
    IN [bigram EXCEPT
          !.token_frequency = [t \in kept |-> new(t)],
          !.frequency = @ + SumMap(token_updates)]

\* -------------------------------------------------------------- Vocabulary
Vocabulary == [words |-> EmptyMap, characters |-> {}]

\* add_word with the bug of replacing the character set by the characters
\* of the new Word.
add_word_LastWord(vocabulary, token) ==
    [words |-> Put(vocabulary.words, token, Word(token)),
     characters |-> Range(Characters(token))]

\* Vocabulary.add_word without a model.
add_word(vocabulary, token) ==
    [words |-> Put(vocabulary.words, token, Word(token)),
     characters |-> vocabulary.characters \cup Range(Characters(token))]

\* reset_subwords with the bug of also clearing the frequency of every Word.
reset_subwords_ClearsFrequency(vocabulary) ==
    LET words == vocabulary.words
    IN [vocabulary EXCEPT
          !.words = [t \in DOMAIN words |->
                       [words[t] EXCEPT !.subwords = Characters(words[t].token),
                                        !.frequency = 0]]]

reset_subwords(vocabulary) ==
    LET words == vocabulary.words
    IN [vocabulary EXCEPT
          !.words = [t \in DOMAIN words |->
                       [words[t] EXCEPT !.subwords = Characters(words[t].token)]]]

num_characters(vocabulary) == Cardinality(vocabulary.characters)

RECURSIVE ReplaceInWord(_, _, _, _, _, _)
\* The while loop of Vocabulary.replace_bigram for one token; k is i + 1.
\* The result holds the new subwords and the updates recorded, in order, as
\* <<subword pair, token, n>>.
ReplaceInWord(subwords, subword_pair, token, frequency, k, recorded) ==
    IF k < Len(subwords)
    THEN IF subwords[k] = subword_pair[1] /\ subwords[k + 1] = subword_pair[2]
         THEN LET merged == MergeAt(subwords, k)
                  left == IF k > 1
                          THEN << << << merged[k - 1], subword_pair[1] >>, token, -frequency >>,
                                  << << merged[k - 1], merged[k] >>, token, frequency >> >>
                          ELSE << >>
                  right == IF k < Len(merged)
                           THEN << << << subword_pair[2], merged[k + 1] >>, token, -frequency >>,
                                   << << merged[k], merged[k + 1] >>, token, frequency >> >>
                           ELSE << >>
              IN ReplaceInWord(merged, subword_pair, token, frequency, k + 1,
                               recorded \o left \o right)
         ELSE ReplaceInWord(subwords, subword_pair, token, frequency, k + 1, recorded)
    ELSE [subwords |-> subwords, recorded |-> recorded]

\* bigram_updates, a defaultdict of defaultdicts: every pair and token that
\* was touched has an entry, also when its updates add up to 0.
BigramUpdates(recorded) ==
    LET pairs == {r[1] : r \in Range(recorded)}
        tokensOf(p) == {r[2] : r \in {q \in Range(recorded) : q[1] = p}}
        total(p, t) ==
            SumSeq([k \in 1..Len(recorded) |->
                      IF recorded[k][1] = p /\ recorded[k][2] = t
                      THEN recorded[k][3] ELSE 0])
    IN [p \in pairs |-> [t \in tokensOf(p) |-> total(p, t)]]

\* Vocabulary.replace_bigram: the vocabulary after the replacement and the
\* dictionary of token updates it returns.
replace_bigram(vocabulary, bigram) ==
    LET tokens == DOMAIN bigram.token_frequency
        scan(t) == ReplaceInWord(vocabulary.words[t].subwords, bigram.subword_pair,
                                 t, vocabulary.words[t].frequency, 1, << >>)
        order == SeqOf(tokens)
        words == vocabulary.words
    IN [vocabulary |->
          [vocabulary EXCEPT
             !.words = [t \in DOMAIN words |->
                          IF t \in tokens
                          THEN [words[t] EXCEPT !.subwords = scan(t).subwords]
                          ELSE words[t]]],
        bigram_updates |->
          BigramUpdates(Concat([k \in 1..Len(order) |-> scan(order[k]).recorded]))]

\* -------------------------------------------------------------- Statistics
\* Statistics.__init__; objects holds the Bigram objects by identity,
\* bigrams maps a subword pair to the identity of its Bigram and search_set
\* is a set of identities.  threshold is None or Some(n).
Statistics ==
    [bigrams |-> EmptyMap, objects |-> EmptyMap, max_frequency |-> 0,
     search_set |-> {}, threshold |-> None, adaptation_parameter |-> 0]

missing(statistics, subword_pair) == subword_pair \notin DOMAIN statistics.bigrams

\* The identity of the next object created.
NewId(objects) ==
    CHOOSE n \in 0..Cardinality(DOMAIN objects) :
        n \notin DOMAIN objects /\ \A m \in 0..(n - 1) : m \in DOMAIN objects

add_bigram(statistics, subword_pair) ==
    LET id == NewId(statistics.objects)
    IN [statistics EXCEPT
          !.objects = Put(statistics.objects, id, Bigram(subword_pair)),
          !.bigrams = Put(statistics.bigrams, subword_pair, id)]

\* Bigram.add_to_search_set
add_to_search_set(statistics, id) ==
    [statistics EXCEPT
       !.search_set = @ \cup {id},
       !.objects = [@ EXCEPT ![id].in_search_set = TRUE]]

\* remove_from_search_set with the bug of leaving the flag set.
remove_from_search_set_KeepsFlag(statistics, id) ==
    [statistics EXCEPT !.search_set = @ \ {id}]

\* Bigram.remove_from_search_set
remove_from_search_set(statistics, id) ==
    [statistics EXCEPT
       !.search_set = @ \ {id},
       !.objects = [@ EXCEPT ![id].in_search_set = FALSE]]

\* del self.bigrams[subword_pair] raises KeyError when the pair is no key.
remove_bigram_raises(statistics, id) ==
    statistics.objects[id].subword_pair \notin DOMAIN statistics.bigrams

remove_bigram(statistics, id) ==
    remove_from_search_set(
        [statistics EXCEPT !.bigrams = Del(@, statistics.objects[id].subword_pair)],
        id)

\* ceil(previous_threshold / (1 + 2 ** adaptation_parameter)); a negative
\* adaptation_parameter makes 2 ** adaptation_parameter the fraction
\* 1 / 2 ** (-adaptation_parameter).
ReducedThreshold(previous_threshold, adaptation_parameter) ==
    IF adaptation_parameter >= 0
    THEN Ceil(previous_threshold, 1 + Pow2(adaptation_parameter))
    ELSE Ceil(previous_threshold * Pow2(-adaptation_parameter),
              Pow2(-adaptation_parameter) + 1)

\* previous_threshold of set_threshold: max_frequency replaces the previous
\* threshold when it is given and not 0.
PreviousThreshold(statistics, max_frequency) ==
    IF max_frequency # None /\ max_frequency[1] # 0
    THEN max_frequency
    ELSE statistics.threshold

\* The arithmetic of set_threshold on None raises TypeError.
set_threshold_raises(statistics, max_frequency) ==
    PreviousThreshold(statistics, max_frequency) = None

\* set_threshold with the bug of a threshold that is only divided, without
\* the step of at least 1.
set_threshold_NoStep(statistics, max_frequency) ==
    LET previous_threshold == PreviousThreshold(statistics, max_frequency)[1]
    IN [statistics EXCEPT
          !.threshold =
              Some(ReducedThreshold(previous_threshold, statistics.adaptation_parameter))]

set_threshold(statistics, max_frequency) ==
    LET previous_threshold == PreviousThreshold(statistics, max_frequency)[1]
    IN [statistics EXCEPT
          !.threshold =
              Some(Min2(ReducedThreshold(previous_threshold, statistics.adaptation_parameter),
                        previous_threshold - 1))]

RECURSIVE AddAll(_, _)
AddAll(statistics, ids) ==
    IF ids = << >> THEN statistics
    ELSE AddAll(add_to_search_set(statistics, Head(ids)), Tail(ids))

\* Adapted with the bug of a step of 1 down from a search set above the
\* target size.
Adapted_OneDown(adaptation_parameter, search_set_size) ==
    IF search_set_size < SEARCH_SET_TARGET_SIZE THEN adaptation_parameter + 1
    ELSE IF search_set_size > SEARCH_SET_TARGET_SIZE THEN adaptation_parameter - 1
    ELSE adaptation_parameter

\* The end of build_search_set: the adaptation parameter after a search set
\* of search_set_size Bigrams has been built.
Adapted(adaptation_parameter, search_set_size) ==
    IF search_set_size < SEARCH_SET_TARGET_SIZE THEN adaptation_parameter + 1
    ELSE IF search_set_size > SEARCH_SET_TARGET_SIZE THEN adaptation_parameter - 2
    ELSE adaptation_parameter

\* build_search_set with the bug of leaving out the Bigrams whose frequency
\* is the threshold.
build_search_set_Strict(statistics) ==
    LET ids == {statistics.bigrams[p] : p \in DOMAIN statistics.bigrams}
        over == {id \in ids : statistics.objects[id].frequency > statistics.threshold[1]}
        built == AddAll(statistics, SeqOf(over))
        search_set_size == Cardinality(built.search_set)
    IN [built EXCEPT !.adaptation_parameter = Adapted(@, search_set_size)]

build_search_set(statistics) ==
    LET ids == {statistics.bigrams[p] : p \in DOMAIN statistics.bigrams}
        over == {id \in ids : statistics.objects[id].frequency >= statistics.threshold[1]}
        built == AddAll(statistics, SeqOf(over))
        search_set_size == Cardinality(built.search_set)
    IN [built EXCEPT !.adaptation_parameter = Adapted(@, search_set_size)]

RECURSIVE CountWord(_, _, _, _)
\* The body of the loops of from_vocabulary for the pairs k.. of one Word.
CountWord(statistics, word, k, max_frequency) ==
    IF k < Len(word.subwords)
    THEN LET pair == << word.subwords[k], word.subwords[k + 1] >>
             added == IF missing(statistics, pair)
                      THEN add_bigram(statistics, pair) ELSE statistics
             id == added.bigrams[pair]
             bigram == update_token_frequencies(
                           added.objects[id], (word.token :> word.frequency))
             counted == [added EXCEPT !.objects[id] = bigram]
         IN CountWord(counted, word, k + 1, Max2(max_frequency, bigram.frequency))
    ELSE [statistics EXCEPT !.max_frequency = max_frequency]

RECURSIVE CountWords(_, _)
CountWords(statistics, words) ==
    IF words = << >> THEN statistics
    ELSE CountWords(CountWord(statistics, Head(words), 1, statistics.max_frequency),
                    Tail(words))

\* The bigram dictionary of from_vocabulary, before the threshold is set.
CountedStatistics(vocabulary) ==
    CountWords(Statistics,
               [k \in 1..Cardinality(DOMAIN vocabulary.words) |->
                   vocabulary.words[SeqOf(DOMAIN vocabulary.words)[k]]])

from_vocabulary_raises(vocabulary) ==
    LET counted == CountedStatistics(vocabulary)
    IN set_threshold_raises(counted, Some(counted.max_frequency))

from_vocabulary(vocabulary) ==
    LET counted == CountedStatistics(vocabulary)
    IN build_search_set(set_threshold(counted, Some(counted.max_frequency)))

RECURSIVE UpdateAll(_, _, _)
\* The loop of update_bigram_frequencies over the pairs of bigram_updates.
UpdateAll(statistics, bigram_updates, pairs) ==
    IF pairs = << >> THEN statistics
    ELSE LET subword_pair == Head(pairs)
             added == IF missing(statistics, subword_pair)
                      THEN add_bigram(statistics, subword_pair) ELSE statistics
             id == added.bigrams[subword_pair]
             bigram == update_token_frequencies(added.objects[id],
                                                bigram_updates[subword_pair])
             updated == [added EXCEPT !.objects[id] = bigram]
             placed == IF bigram.frequency >= statistics.threshold[1]
                       THEN IF ~bigram.in_search_set
                            THEN add_to_search_set(updated, id) ELSE updated
                       ELSE IF bigram.in_search_set
                            THEN remove_from_search_set(updated, id) ELSE updated
             cleaned == IF bigram.frequency = 0
                        THEN [placed EXCEPT !.bigrams = Del(@, subword_pair)]
                        ELSE placed
         IN UpdateAll(cleaned, bigram_updates, Tail(pairs))

update_bigram_frequencies(statistics, bigram_updates) ==
    UpdateAll(statistics, bigram_updates, SeqOf(DOMAIN bigram_updates))

RECURSIVE Rebuilt_Once(_)
\* Rebuilt with the bug of a single rebuild, whatever the search set then
\* holds.
Rebuilt_Once(statistics) ==
    IF statistics.search_set # {} THEN statistics
    ELSE build_search_set(set_threshold(statistics, None))

RECURSIVE Rebuilt(_)
\* max_bigram with an empty search set: lower the threshold and rebuild the
\* search set, again and again, until it holds a Bigram.
Rebuilt(statistics) ==
    IF statistics.search_set # {} THEN statistics
    ELSE Rebuilt(build_search_set(set_threshold(statistics, None)))

RECURSIVE Scan_Least(_, _, _, _)
\* Scan with the bug of the comparison turned around.
Scan_Least(statistics, order, k, max_bigram) ==
    IF k > Len(order) THEN max_bigram
    ELSE IF statistics.objects[order[k]].frequency
              < statistics.objects[max_bigram].frequency
         THEN Scan_Least(statistics, order, k + 1, order[k])
         ELSE IF statistics.objects[max_bigram].frequency = statistics.max_frequency
              THEN max_bigram
              ELSE Scan_Least(statistics, order, k + 1, max_bigram)

RECURSIVE Scan(_, _, _, _)
\* The for loop of max_bigram over the search set in iteration order `order`
\* from position k, max_bigram being the best so far.
Scan(statistics, order, k, max_bigram) ==
    IF k > Len(order) THEN max_bigram
    ELSE IF statistics.objects[order[k]].frequency
              > statistics.objects[max_bigram].frequency
         THEN Scan(statistics, order, k + 1, order[k])
         ELSE IF statistics.objects[max_bigram].frequency = statistics.max_frequency
              THEN max_bigram
              ELSE Scan(statistics, order, k + 1, max_bigram)

\* The iteration orders of the search set that are tried: one for every
\* Bigram the iteration can start with.
IterationOrders(search_set) ==
    {<< first >> \o SeqOf(search_set \ {first}) : first \in search_set}

\* The Bigram max_bigram finds in a non-empty search set iterated in `order`.
SearchMax(statistics, order) == Scan(statistics, order, 1, order[1])

\* Objects no reference is left to are gone.
Collected(statistics, held) ==
    LET live == {statistics.bigrams[p] : p \in DOMAIN statistics.bigrams}
                \cup statistics.search_set \cup held
    IN [statistics EXCEPT !.objects = [id \in live |-> @[id]]]

\* ---------------------------------------------------------------- BPEModel
BPEModel == [operations |-> << >>]

\* add_operation with the bug of putting the new operation first.
add_operation_First(bpe_model, bigram) ==
    [bpe_model EXCEPT !.operations = << bigram.subword_pair >> \o @]

add_operation(bpe_model, bigram) ==
    [bpe_model EXCEPT !.operations = Append(@, bigram.subword_pair)]

\* ------------------------------------------------- encode_text and decode
Letters == {"A", "B", "C", "D", "E", "F", "G", "H", "I", "J", "K", "L", "M",
            "N", "O", "P", "Q", "R", "S", "T", "U", "V", "W", "X", "Y", "Z"}

\* str.upper on one character, for the lower-case letters a text is drawn from.
Upper(c) == IF c = "a" THEN "A" ELSE IF c = "b" THEN "B" ELSE c

upper(text) == [k \in 1..Len(text) |-> Upper(text[k])]

\* sub(r"[^A-Z']", " ", text)
Scrubbed(text) ==
    [k \in 1..Len(text) |->
        IF text[k] \in Letters \cup {"'"} THEN text[k] ELSE " "]

\* The white space a text or a line of a file is made of.
WhiteSpace == {" ", "\n"}

RECURSIVE SplitFrom(_, _, _)
\* str.split(): the runs of characters other than white space, `token`
\* being the run read so far.
SplitFrom(text, k, token) ==
    IF k > Len(text)
    THEN IF token = << >> THEN << >> ELSE << token >>
    ELSE IF text[k] \in WhiteSpace
         THEN (IF token = << >> THEN << >> ELSE << token >>)
              \o SplitFrom(text, k + 1, << >>)
         ELSE SplitFrom(text, k + 1, Append(token, text[k]))

split(text) == SplitFrom(text, 1, << >>)

RECURSIVE Join(_, _)
\* separator.join(parts)
Join(parts, separator) ==
    IF parts = << >> THEN << >>
    ELSE IF Len(parts) = 1 THEN Head(parts)
    ELSE Head(parts) \o separator \o Join(Tail(parts), separator)

\* Vocabulary.add_word with a BPEModel.
add_word_with_model(vocabulary, token, bpe_model) ==
    LET added == add_word(vocabulary, token)
    IN [added EXCEPT
          !.words[token].subwords = apply_model(@, bpe_model.operations)]

\* map_to_subwords with the bug of joining the subwords without a space.
map_to_subwords_Unseparated(vocabulary, token) ==
    Join(vocabulary.words[token].subwords, << >>)

map_to_subwords(vocabulary, token) ==
    Join(vocabulary.words[token].subwords, << " " >>)

RECURSIVE EncodeTokens_Reapplies(_, _, _, _)
\* EncodeTokens with the bug of applying the model again to the Word of a
\* token the vocabulary already holds.
EncodeTokens_Reapplies(tokens, bpe_model, vocabulary, encodings) ==
    IF tokens = << >>
    THEN [vocabulary |-> vocabulary, encodings |-> encodings]
    ELSE LET token == Head(tokens)
             known == IF token \notin DOMAIN vocabulary.words
                      THEN add_word_with_model(vocabulary, token, bpe_model)
                      ELSE [vocabulary EXCEPT
                              !.words[token].subwords =
                                  apply_model(@, bpe_model.operations)]
         IN EncodeTokens_Reapplies(Tail(tokens), bpe_model, known,
                                   Append(encodings, map_to_subwords(known, token)))

RECURSIVE EncodeTokens(_, _, _, _)
\* The loop of encode_text over the tokens of the text.
EncodeTokens(tokens, bpe_model, vocabulary, encodings) ==
    IF tokens = << >>
    THEN [vocabulary |-> vocabulary, encodings |-> encodings]
    ELSE LET token == Head(tokens)
             known == IF token \notin DOMAIN vocabulary.words
                      THEN add_word_with_model(vocabulary, token, bpe_model)
                      ELSE vocabulary
         IN EncodeTokens(Tail(tokens), bpe_model, known,
                         Append(encodings, map_to_subwords(known, token)))

\* encode_text: the vocabulary it leaves and the string it returns.
encode_text(text, bpe_model, vocabulary) ==
    LET encoded == EncodeTokens(split(Scrubbed(upper(text))), bpe_model,
                                vocabulary, << >>)
    IN [vocabulary |-> encoded.vocabulary,
        subwords |-> Join(encoded.encodings, << " " >>)]

\* str.replace(old, new) for a one-character old.
Replaced(text, old, new) ==
    Concat([k \in 1..Len(text) |-> IF text[k] = old THEN new ELSE << text[k] >>])

RECURSIVE LStrip(_)
LStrip(text) ==
    IF text # << >> /\ Head(text) = " " THEN LStrip(Tail(text)) ELSE text

RECURSIVE RStrip(_)
RStrip(text) ==
    IF text # << >> /\ text[Len(text)] = " "
    THEN RStrip(SubSeq(text, 1, Len(text) - 1)) ELSE text

\* str.strip()
strip(text) == RStrip(LStrip(text))

\* decode_subwords with the bug of leaving out strip().
decode_subwords_NoStrip(subwords) ==
    Replaced(Replaced(subwords, " ", << >>), EndOfToken, << " " >>)

decode_subwords(subwords) ==
    strip(Replaced(Replaced(subwords, " ", << >>), EndOfToken, << " " >>))

\* ------------------------------------------------------------------- files
\* A file is the sequence of its lines, a line a sequence of characters that
\* ends with "\n".
Digits == << "0", "1", "2", "3", "4", "5", "6", "7", "8", "9" >>

RECURSIVE str(_)
\* The decimal digits f"{n}" writes for an integer n >= 0.
str(n) ==
    IF n < 10 THEN << Digits[n + 1] >>
    ELSE str(n \div 10) \o << Digits[(n % 10) + 1] >>

\* int(s) raises ValueError unless s is a string of digits.
int_raises(s) == s = << >> \/ \E k \in DOMAIN s : s[k] \notin Range(Digits)

RECURSIVE int(_)
\* int(s) for a string of digits.
int(s) ==
    IF s = << >> THEN 0
    ELSE int(SubSeq(s, 1, Len(s) - 1)) * 10
         + ((CHOOSE d \in DOMAIN Digits : Digits[d] = s[Len(s)]) - 1)

\* The characters of tokens and subwords in the order of their code points.
CodePoints ==
    << "'", "A", "B", "C", "D", "E", "F", "G", "H", "I", "J", "K", "L", "M",
       "N", "O", "P", "Q", "R", "S", "T", "U", "V", "W", "X", "Y", "Z", "_" >>

ord(c) == CHOOSE k \in DOMAIN CodePoints : CodePoints[k] = c

RECURSIVE StrLess(_, _)
\* s < t for two Python strings.
StrLess(s, t) ==
    IF t = << >> THEN FALSE
    ELSE IF s = << >> THEN TRUE
    ELSE IF Head(s) # Head(t) THEN ord(Head(s)) < ord(Head(t))
    ELSE StrLess(Tail(s), Tail(t))

\* The sort key of Vocabulary.write: (-x.frequency, x.token).
KeyLess(x, y) ==
    \/ x.frequency > y.frequency
    \/ x.frequency = y.frequency /\ StrLess(x.token, y.token)

RECURSIVE sorted(_)
\* sorted(words) by that key, for Words of different tokens.
sorted(words) ==
    IF words = {} THEN << >>
    ELSE LET first == CHOOSE x \in words : \A y \in words \ {x} : KeyLess(x, y)
         IN << first >> \o sorted(words \ {first})

\* f"{word.token} {word.frequency}\n"
VocabularyLine(token, frequency) == token \o << " " >> \o str(frequency) \o << "\n" >>

\* write with the bug of a loop that ends before the last Word.
write_SkipsLast(vocabulary) ==
    LET words == sorted(Range(vocabulary.words))
    IN [k \in 1..(Len(words) - 1) |->
          VocabularyLine(words[k].token, words[k].frequency)]

\* Vocabulary.write: the lines written to the file.
write(vocabulary) ==
    LET words == sorted(Range(vocabulary.words))
    IN [k \in DOMAIN words |-> VocabularyLine(words[k].token, words[k].frequency)]

\* token, frequency = line.split() and int(frequency) raise ValueError for a
\* line that is not two fields, the second a string of digits.
vocabulary_line_raises(line) ==
    LET fields == split(upper(line))
    IN Len(fields) # 2 \/ int_raises(fields[2])

RECURSIVE from_vocabulary_lines(_, _)
\* The loop of Vocabulary.from_vocabulary_file over the lines of the file:
\* the Vocabulary built and the exception raised, "" when none.
from_vocabulary_lines(new_vocabulary, lines) ==
    IF lines = << >> THEN [vocabulary |-> new_vocabulary, raised |-> ""]
    ELSE IF vocabulary_line_raises(Head(lines))
    THEN [vocabulary |-> new_vocabulary, raised |-> "ValueError"]
    ELSE LET fields == split(upper(Head(lines)))
             token == fields[1]
             frequency == int(fields[2])
             added == add_word(new_vocabulary, token)
         IN from_vocabulary_lines(
                [added EXCEPT !.words[token] = update_frequency(@, frequency)],
                Tail(lines))

from_vocabulary_file(file) == from_vocabulary_lines(Vocabulary, file)

\* f"{operation[0]} {operation[1]}\n"
ModelLine(operation) == operation[1] \o << " " >> \o operation[2] \o << "\n" >>

\* BPEModel.write with the bug of writing the last operation first.
BPEModel_write_Reversed(bpe_model) ==
    [k \in DOMAIN bpe_model.operations |->
        ModelLine(bpe_model.operations[Len(bpe_model.operations) + 1 - k])]

\* BPEModel.write: the lines written to the file.
BPEModel_write(bpe_model) ==
    [k \in DOMAIN bpe_model.operations |-> ModelLine(bpe_model.operations[k])]

\* subword_a, subword_b = line.split() raises ValueError for a line that is
\* not two fields.
model_line_raises(line) == Len(split(upper(line))) # 2

RECURSIVE from_model_lines(_, _)
\* The loop of BPEModel.from_model_file over the lines of the file.
from_model_lines(new_bpe_model, lines) ==
    IF lines = << >> THEN [bpe_model |-> new_bpe_model, raised |-> ""]
    ELSE IF model_line_raises(Head(lines))
    THEN [bpe_model |-> new_bpe_model, raised |-> "ValueError"]
    ELSE LET fields == split(upper(Head(lines)))
             new_bigram == Bigram(<< fields[1], fields[2] >>)
         IN from_model_lines(add_operation(new_bpe_model, new_bigram), Tail(lines))

from_model_file(file) == from_model_lines(BPEModel, file)

RECURSIVE AddTokens(_, _)
\* The loop of Vocabulary.add_text over the tokens of the text.
AddTokens(vocabulary, tokens) ==
    IF tokens = << >> THEN vocabulary
    ELSE LET token == Head(tokens)
             known == IF token \notin DOMAIN vocabulary.words
                      THEN add_word(vocabulary, token)
                      ELSE vocabulary
         IN AddTokens([known EXCEPT !.words[token] = update_frequency(@, 1)],
                      Tail(tokens))

add_text(vocabulary, text) == AddTokens(vocabulary, split(Scrubbed(upper(text))))

\* ------------------------------------------------------------------- state
VARIABLES
    pc,              \* position of the program
    vocabulary,      \* the Vocabulary
    statistics,      \* the Statistics of train_model
    bpe_model,       \* the BPEModel
    max_subwords,    \* argument of train_model
    max_operations,  \* local of train_model
    i,               \* loop counter of train_model
    max_bigram,      \* local of train_model: None or the identity of a Bigram
    raised,          \* the exception that ended the program, "" when none
    text,            \* the text given to encode_text
    subwords,        \* the string encode_text returned, None before
    decoded,         \* the string decode_subwords returned, None before
    file,            \* the lines of the file that is open, None when none is
    subword_file     \* the lines bpe_encode_text.py has written

vars == << pc, vocabulary, statistics, bpe_model, max_subwords, max_operations,
           i, max_bigram, raised, text, subwords, decoded, file, subword_file >>

trainVars == << statistics, max_subwords, max_operations, i, max_bigram, raised >>
codecVars == << text, subwords, decoded, subword_file >>

Tokens == UNION {[1..n -> Chars] : n \in 1..MaxTokenLen}

\* A line that is not two fields.
MalformedLine == << "A", "\n" >>

\* The lines a vocabulary file is made of: a token and a frequency of
\* 0..MaxWeight, or the malformed line.
VocabularyLines ==
    {VocabularyLine(token, frequency) : token \in Tokens, frequency \in 0..MaxWeight}
    \cup {MalformedLine}

\* The vocabulary files read: at most MaxWords lines, the same token on
\* several lines or not.  The Words are kept in a dict, so that only the order
\* of the lines of one token has an effect, and the files are taken with
\* their lines in the order of their tokens.
VocabularyFiles ==
    UNION {{lines \in [1..n -> VocabularyLines] :
              \A k \in 1..(n - 1) :
                 ~StrLess(split(lines[k + 1])[1], split(lines[k])[1])} :
           n \in 0..MaxWords}

\* The vocabularies of the examples of the documentation, with the
\* max_subwords they are trained with.
Examples ==
    {[file |-> << VocabularyLine(<< "A", "A", "A", "A" >>, 1) >>,
      max_subwords |-> 10],
     [file |-> << VocabularyLine(<< "L", "O", "W" >>, 5),
                  VocabularyLine(<< "L", "O", "W", "E", "R" >>, 2),
                  VocabularyLine(<< "N", "E", "W", "E", "S", "T" >>, 6),
                  VocabularyLine(<< "W", "I", "D", "E", "S", "T" >>, 3) >>,
      max_subwords |-> 20]}

\* The characters a text is made of.
TextChars == {"A", "b", "'", "_", " "}

Texts == UNION {[1..n -> TextChars] : n \in 0..MaxTextLen}

\* The lines of the text file after the first, other than the first line
\* again.
NextTexts == UNION {[1..n -> TextChars] : n \in 0..MaxNextLen}

\* The subword pairs a model file is made of: two characters, a character
\* and the end of a token, or two characters joined and the end of a token.
ModelPairs ==
    {<< << a >>, << b >> >> : a \in Chars, b \in Chars \cup {EndOfToken}}
    \cup {<< << a, b >>, << EndOfToken >> >> : a \in Chars, b \in Chars}

\* The model files read: at most MaxOperations lines, each an operation or
\* the malformed line.
ModelFiles ==
    UNION {[1..n -> {ModelLine(operation) : operation \in ModelPairs}
                    \cup {MalformedLine}] : n \in 0..MaxOperations}

\* The model file and the text of the encoding example of the documentation.
ExampleModelFile ==
    << ModelLine(<< << "H" >>, << "E" >> >>),
       ModelLine(<< << "L" >>, << "L" >> >>),
       ModelLine(<< << "O" >>, << EndOfToken >> >>),
       ModelLine(<< << "W" >>, << "O", "R" >> >>),
       ModelLine(<< << "L" >>, << "D", EndOfToken >> >>) >>

ExampleText == << "H", "E", "L", "L", "O", " ", "W", "O", "R", "L", "D" >>

\* A driver has been started and has read no file yet.
Init ==
    /\ pc = "start"
    /\ vocabulary = Vocabulary
    /\ statistics = Statistics
    /\ bpe_model = BPEModel
    /\ max_subwords = 1
    /\ max_operations = 0
    /\ i = 0
    /\ max_bigram = None
    /\ raised = ""
    /\ text = << >>
    /\ subwords = None
    /\ decoded = None
    /\ file = None
    /\ subword_file = << >>

\* bpe_train_model.py reads the vocabulary file: any vocabulary file of at
\* most MaxWords lines, and any max_subwords the driver accepts.
LoadVocabulary ==
    /\ pc = "start"
    /\ \E lines \in VocabularyFiles :
         LET loaded == from_vocabulary_file(lines)
         IN /\ file' = Some(lines)
            /\ vocabulary' = loaded.vocabulary
            /\ raised' = loaded.raised
            /\ pc' = IF loaded.raised = "" THEN "train" ELSE "load error"
    /\ max_subwords' \in 1..MaxSubwords
    /\ UNCHANGED << statistics, bpe_model, max_operations, i, max_bigram >>
    /\ UNCHANGED codecVars

\* bpe_train_model.py reads the vocabulary file of an example.
LoadExample ==
    /\ pc = "start"
    /\ \E example \in Examples :
         /\ file' = Some(example.file)
         /\ vocabulary' = from_vocabulary_file(example.file).vocabulary
         /\ max_subwords' = example.max_subwords
    /\ pc' = "train"
    /\ UNCHANGED << statistics, bpe_model, max_operations, i, max_bigram, raised >>
    /\ UNCHANGED codecVars

\* bpe_encode_text.py reads the model file: any model file of at most
\* MaxOperations lines.
LoadModel ==
    /\ pc = "start"
    /\ \E lines \in ModelFiles :
         LET loaded == from_model_file(lines)
         IN /\ file' = Some(lines)
            /\ bpe_model' = loaded.bpe_model
            /\ raised' = loaded.raised
            /\ pc' = IF loaded.raised = "" THEN "encode" ELSE "load error"
    /\ UNCHANGED << vocabulary, statistics, max_subwords, max_operations, i,
                    max_bigram >>
    /\ UNCHANGED codecVars

\* bpe_encode_text.py reads the model file of the example.
LoadExampleModel ==
    /\ pc = "start"
    /\ file' = Some(ExampleModelFile)
    /\ bpe_model' = from_model_file(ExampleModelFile).bpe_model
    /\ pc' = "encode"
    /\ UNCHANGED << vocabulary, statistics, max_subwords, max_operations, i,
                    max_bigram, raised >>
    /\ UNCHANGED codecVars

\* ------------------------------------------------- compile_vocabulary.py
\* Vocabulary.from_text_file: add_text on one more line of the text file,
\* while the Vocabulary counts fewer than MaxCorpus tokens.
AddText ==
    /\ pc \in {"start", "compile"}
    /\ SumSeq([k \in 1..Len(SeqOf(DOMAIN vocabulary.words)) |->
                 vocabulary.words[SeqOf(DOMAIN vocabulary.words)[k]].frequency])
         < MaxCorpus
    /\ \E line \in Texts : vocabulary' = add_text(vocabulary, line)
    /\ pc' = "compile"
    /\ UNCHANGED << bpe_model, file >>
    /\ UNCHANGED trainVars
    /\ UNCHANGED codecVars

\* The text file has been read: Vocabulary.write on the vocabulary file.
WriteVocabulary ==
    /\ pc = "compile"
    /\ file' = Some(write(vocabulary))
    /\ pc' = "written"
    /\ UNCHANGED << vocabulary, bpe_model >>
    /\ UNCHANGED trainVars
    /\ UNCHANGED codecVars

\* Vocabulary.from_vocabulary_file on the vocabulary file that was written.
ReadVocabulary ==
    /\ pc = "written"
    /\ LET loaded == from_vocabulary_file(file[1])
       IN /\ vocabulary' = loaded.vocabulary
          /\ raised' = loaded.raised
          /\ pc' = IF loaded.raised = "" THEN "read" ELSE "load error"
    /\ UNCHANGED << statistics, bpe_model, max_subwords, max_operations, i,
                    max_bigram, file >>
    /\ UNCHANGED codecVars

\* ------------------------------------------------------------- train_model
\* train_model up to the loop: reset_subwords, from_vocabulary, BPEModel(),
\* max_operations.
TrainBegin ==
    /\ pc = "train"
    /\ file' = None
    /\ LET reset == reset_subwords(vocabulary)
       IN /\ vocabulary' = reset
          /\ IF from_vocabulary_raises(reset)
             THEN /\ pc' = "error"
                  /\ raised' = "TypeError"
                  /\ UNCHANGED << statistics, bpe_model, max_operations, i >>
             ELSE /\ pc' = "loop"
                  /\ statistics' = from_vocabulary(reset)
                  /\ bpe_model' = BPEModel
                  /\ max_operations' = max_subwords - num_characters(reset)
                  /\ i' = 0
                  /\ UNCHANGED raised
    /\ UNCHANGED << max_subwords, max_bigram >>
    /\ UNCHANGED codecVars

\* TrainSelect with the bug of a loop over range(max_operations + 1).
TrainSelect_OneMore ==
    /\ pc = "loop"
    /\ i <= max_operations
    /\ IF DOMAIN statistics.bigrams = {}
       THEN /\ max_bigram' = None
            /\ pc' = "done"
            /\ UNCHANGED statistics
       ELSE LET rebuilt == Rebuilt(statistics)
            IN \E order \in IterationOrders(rebuilt.search_set) :
                 LET found == SearchMax(rebuilt, order)
                 IN /\ max_bigram' = Some(found)
                    /\ statistics' =
                         [rebuilt EXCEPT !.max_frequency = rebuilt.objects[found].frequency]
                    /\ pc' = "merge"
    /\ UNCHANGED << vocabulary, bpe_model, max_subwords, max_operations, i, raised >>
    /\ UNCHANGED codecVars
    /\ UNCHANGED file

\* One call of statistics.max_bigram() at the head of an iteration.
TrainSelect ==
    /\ pc = "loop"
    /\ i < max_operations
    /\ IF DOMAIN statistics.bigrams = {}
       THEN /\ max_bigram' = None
            /\ pc' = "done"
            /\ UNCHANGED statistics
       ELSE LET rebuilt == Rebuilt(statistics)
            IN \E order \in IterationOrders(rebuilt.search_set) :
                 LET found == SearchMax(rebuilt, order)
                 IN /\ max_bigram' = Some(found)
                    /\ statistics' =
                         [rebuilt EXCEPT !.max_frequency = rebuilt.objects[found].frequency]
                    /\ pc' = "merge"
    /\ UNCHANGED << vocabulary, bpe_model, max_subwords, max_operations, i, raised >>
    /\ UNCHANGED codecVars
    /\ UNCHANGED file

\* The rest of an iteration: add_operation, replace_bigram, remove_bigram,
\* update_bigram_frequencies.
TrainMerge ==
    /\ pc = "merge"
    /\ LET id == max_bigram[1]
           bigram == statistics.objects[id]
           replaced == replace_bigram(vocabulary, bigram)
       IN /\ bpe_model' = add_operation(bpe_model, bigram)
          /\ vocabulary' = replaced.vocabulary
          /\ IF remove_bigram_raises(statistics, id)
             THEN /\ pc' = "error"
                  /\ raised' = "KeyError"
                  /\ UNCHANGED << statistics, i, max_bigram >>
             ELSE /\ pc' = "loop"
                  /\ statistics' =
                       Collected(update_bigram_frequencies(
                                     remove_bigram(statistics, id),
                                     replaced.bigram_updates), {})
                  /\ i' = i + 1
                  /\ max_bigram' = None
                  /\ UNCHANGED raised
    /\ UNCHANGED << max_subwords, max_operations >>
    /\ UNCHANGED codecVars
    /\ UNCHANGED file

\* TrainReturn with the bug of a loop over range(max_operations - 1).
TrainReturn_Early ==
    /\ pc = "loop"
    /\ i >= max_operations - 1
    /\ pc' = "done"
    /\ UNCHANGED << vocabulary, statistics, bpe_model, max_subwords,
                    max_operations, i, max_bigram, raised >>
    /\ UNCHANGED codecVars
    /\ UNCHANGED file

\* The loop ends with range(max_operations) exhausted.
TrainReturn ==
    /\ pc = "loop"
    /\ i >= max_operations
    /\ pc' = "done"
    /\ UNCHANGED << vocabulary, statistics, bpe_model, max_subwords,
                    max_operations, i, max_bigram, raised >>
    /\ UNCHANGED codecVars
    /\ UNCHANGED file

\* bpe_train_model.py: train_model has returned, BPEModel.write on the model
\* file.
WriteModel ==
    /\ pc = "done"
    /\ file' = Some(BPEModel_write(bpe_model))
    /\ pc' = "model written"
    /\ UNCHANGED << vocabulary, bpe_model >>
    /\ UNCHANGED trainVars
    /\ UNCHANGED codecVars

\* BPEModel.from_model_file on the model file that was written.
ReadModel ==
    /\ pc = "model written"
    /\ LET loaded == from_model_file(file[1])
       IN /\ bpe_model' = loaded.bpe_model
          /\ raised' = loaded.raised
          /\ pc' = IF loaded.raised = "" THEN "model read" ELSE "load error"
    /\ UNCHANGED << vocabulary, statistics, max_subwords, max_operations, i,
                    max_bigram, file >>
    /\ UNCHANGED codecVars

\* ------------------------------------------------ encoding and decoding
\* bpe_encode_text.py: encode_text on a line of the text file.
Encode ==
    /\ pc = "encode"
    /\ \E line \in Texts \cup {ExampleText} :
         LET encoded == encode_text(line, bpe_model, vocabulary)
         IN /\ text' = line
            /\ vocabulary' = encoded.vocabulary
            /\ subwords' = Some(encoded.subwords)
            /\ subword_file' = << encoded.subwords \o << "\n" >> >>
    /\ pc' = "encoded"
    /\ file' = None
    /\ UNCHANGED << bpe_model, decoded >>
    /\ UNCHANGED trainVars

\* bpe_encode_text.py, the next line of the text file: encode_text with the
\* Vocabulary the lines before it have left.  The line is the first line
\* again or any line of NextTexts.
EncodeNext ==
    /\ pc = "encoded"
    /\ \E line \in NextTexts \cup {text} :
         LET encoded == encode_text(line, bpe_model, vocabulary)
         IN /\ text' = line
            /\ vocabulary' = encoded.vocabulary
            /\ subwords' = Some(encoded.subwords)
            /\ subword_file' = Append(subword_file, encoded.subwords \o << "\n" >>)
    /\ pc' = "encoded next"
    /\ UNCHANGED << bpe_model, decoded, file >>
    /\ UNCHANGED trainVars

\* bpe_decode_subwords.py: decode_subwords on the encoded line.
Decode ==
    /\ pc = "encoded"
    /\ decoded' = Some(decode_subwords(subwords[1]))
    /\ pc' = "decoded"
    /\ UNCHANGED << vocabulary, bpe_model, text, subwords, file, subword_file >>
    /\ UNCHANGED trainVars

\* Word.apply_model called once more on every Word the encoding made.
ApplyAgain ==
    /\ pc = "decoded"
    /\ LET words == vocabulary.words
       IN vocabulary' =
            [vocabulary EXCEPT
               !.words = [t \in DOMAIN words |->
                            [words[t] EXCEPT
                               !.subwords = apply_model(@, bpe_model.operations)]]]
    /\ pc' = "applied again"
    /\ UNCHANGED << bpe_model, text, subwords, decoded, file, subword_file >>
    /\ UNCHANGED trainVars

Next ==
    \/ LoadVocabulary
    \/ LoadExample
    \/ LoadModel
    \/ LoadExampleModel
    \/ AddText
    \/ WriteVocabulary
    \/ ReadVocabulary
    \/ TrainBegin
    \/ TrainSelect
    \/ TrainMerge
    \/ TrainReturn
    \/ WriteModel
    \/ ReadModel
    \/ Encode
    \/ EncodeNext
    \/ Decode
    \/ ApplyAgain

Spec == Init /\ [][Next]_vars

\* train_model is sequential code: from each of its positions it takes its
\* next step.  At "train" TrainBegin is enabled, at "loop" TrainSelect or
\* TrainReturn, at "merge" TrainMerge, and each of them moves pc, so the step
\* that is taken is stated on pc alone.
TrainProgress ==
    /\ pc \in {"train", "loop", "merge"}
    /\ pc' \in {"loop", "merge", "done", "error"}
    /\ pc' # pc

FairSpec == Spec /\ WF_pc(TrainProgress)

\* ------------------------------------------------------------------ claims
\* The Bigram an identity stands for, and the Bigrams of the dictionary.
Object(id) == statistics.objects[id]
Entry(subword_pair) == statistics.objects[statistics.bigrams[subword_pair]]

\* C1: whenever max_bigram has returned a Bigram to the trainer, that Bigram
\* is the one the bigram dictionary holds for its pair, and no Bigram of the
\* dictionary has a greater frequency.
C1_MaxBigramIsMaximal ==
    pc = "merge" =>
        LET found == Object(max_bigram[1])
        IN /\ found.subword_pair \in DOMAIN statistics.bigrams
           /\ statistics.bigrams[found.subword_pair] = max_bigram[1]
           /\ \A p \in DOMAIN statistics.bigrams :
                 Entry(p).frequency <= found.frequency

\* The bigram dictionary as a value: frequency and token frequencies per pair.
PairMap(statistics_) ==
    [p \in DOMAIN statistics_.bigrams |->
        [frequency |-> statistics_.objects[statistics_.bigrams[p]].frequency,
         token_frequency |->
             statistics_.objects[statistics_.bigrams[p]].token_frequency]]

\* C2: after every complete iteration of the trainer the bigram dictionary
\* equals the one from_vocabulary builds from the updated Vocabulary.
C2_UpdatedEqualsRebuilt ==
    (pc = "loop" /\ i > 0) =>
        PairMap(statistics) = PairMap(CountedStatistics(vocabulary))

\* C3: in every state the subwords of every Word, joined, are its token
\* followed by the end-of-token symbol.
C3_SubwordsSpellToken ==
    \A t \in DOMAIN vocabulary.words :
        /\ vocabulary.words[t].token = t
        /\ Concat(vocabulary.words[t].subwords) = t \o << EndOfToken >>

\* A Word of the trained Vocabulary has been merged more than once.
C3_Witness ==
    /\ pc = "loop"
    /\ i >= 2
    /\ \E t \in DOMAIN vocabulary.words : Len(vocabulary.words[t].subwords) < Len(t)

\* C4: when train_model has returned, applying the returned model to the
\* characters of a token of the Vocabulary gives the subwords the Vocabulary
\* holds for the token.
C4_ModelReproducesTraining ==
    pc = "done" =>
        \A t \in DOMAIN vocabulary.words :
            apply_model(Characters(t), bpe_model.operations)
                = vocabulary.words[t].subwords

\* The tokens of a text: upper case, [^A-Z'] to spaces, split.
Normalized(text_) == split(Scrubbed(upper(text_)))

\* C5: decoding the encoding of a text gives the normalized tokens of the
\* text joined by single spaces.
C5_DecodeEncodeIsNormalize ==
    pc = "decoded" => decoded[1] = Join(Normalized(text), << " " >>)

\* A text of two tokens that normalization changed, one of them merged.
C5_Witness ==
    /\ pc = "decoded"
    /\ Len(Normalized(text)) >= 2
    /\ Join(Normalized(text), << " " >>) # text
    /\ \E t \in DOMAIN vocabulary.words : Len(vocabulary.words[t].subwords) <= Len(t)

\* C6 as claimed: for any model, applying it a second time to the subwords
\* of a Word leaves them unchanged.
C6_ApplyTwiceAnyModel ==
    [][pc' = "applied again" => vocabulary' = vocabulary]_vars

\* No operation joins its pair into a subword of an earlier operation's pair.
NoLateProducer(operations) ==
    \A j, k \in 1..Len(operations) :
        j < k => operations[k][1] \o operations[k][2]
                    \notin {operations[j][1], operations[j][2]}

\* C6 as amended: for a model in which no operation produces a subword that
\* an earlier operation's pair contains, applying the model a second time to
\* the subwords of a Word leaves them unchanged.
C6_ApplyTwice ==
    [][(pc' = "applied again" /\ NoLateProducer(bpe_model.operations))
          => vocabulary' = vocabulary]_vars

\* Such a model of two operations has been applied twice to a Word it
\* merged twice.
C6_Witness ==
    /\ pc = "applied again"
    /\ NoLateProducer(bpe_model.operations)
    /\ Len(bpe_model.operations) = 2
    /\ \E t \in DOMAIN vocabulary.words : Len(vocabulary.words[t].subwords) < Len(t)

\* train_model has ended: it returned or an exception left it.
TrainEnded == pc \in {"done", "error"}

C8_EarlyStopMeansCollapsed ==
    (pc = "done" /\ i < max_operations) =>
        \A t \in DOMAIN vocabulary.words :
            vocabulary.words[t].subwords = << t \o << EndOfToken >> >>

UniqueSubwords(vocabulary_) ==
    UNION {Range(vocabulary_.words[t].subwords) : t \in DOMAIN vocabulary_.words}

\* C10: when train_model has returned, the subword mappings of the
\* Vocabulary hold at most max_subwords distinct subwords.
C10_UniqueSubwordsWithinMax ==
    pc = "done" => Cardinality(UniqueSubwords(vocabulary)) <= max_subwords

\* train_model is at one of its positions, or has ended.
InTraining == pc \in {"loop", "merge", "done", "error"}

\* C11: when train_model has ended on an empty Vocabulary, it has returned
\* an empty model at iteration 0 and has raised no exception.
C11_EmptyVocabularyEmptyModel ==
    (pc \in {"done", "error"} /\ DOMAIN vocabulary.words = {}) =>
        /\ pc = "done"
        /\ raised = ""
        /\ bpe_model.operations = << >>
        /\ i = 0

\* The Vocabulary holds the Words of `weights` and no other.
VocabularyIs(weights) ==
    /\ DOMAIN vocabulary.words = DOMAIN weights
    /\ \A t \in DOMAIN weights : vocabulary.words[t].frequency = weights[t]

\* The Bigram max_bigram has returned is `subword_pair` with `frequency`.
Selected(subword_pair, frequency) ==
    /\ Object(max_bigram[1]).subword_pair = subword_pair
    /\ Object(max_bigram[1]).frequency = frequency

AAAA == << "A", "A", "A", "A" >>

\* C12: training on the single token AAAA of weight 1 with more than 3
\* operations allowed selects (A,A) with frequency 3 and leaves [AA,AA,_],
\* then selects (AA,AA) with frequency 1, then (AAAA,_) with frequency 1,
\* selects nothing more and returns exactly these 3 operations.
C12_TrainingOnAAAA ==
    (InTraining /\ pc # "error" /\ VocabularyIs(AAAA :> 1) /\ max_operations > 3) =>
        /\ (pc = "merge" /\ i = 0) => Selected(<< << "A" >>, << "A" >> >>, 3)
        /\ (pc = "loop" /\ i = 1) =>
              vocabulary.words[AAAA].subwords
                 = << << "A", "A" >>, << "A", "A" >>, << EndOfToken >> >>
        /\ (pc = "merge" /\ i = 1) =>
              Selected(<< << "A", "A" >>, << "A", "A" >> >>, 1)
        /\ (pc = "merge" /\ i = 2) => Selected(<< AAAA, << EndOfToken >> >>, 1)
        /\ pc = "merge" => i < 3
        /\ pc = "done" =>
              bpe_model.operations
                 = << << << "A" >>, << "A" >> >>,
                      << << "A", "A" >>, << "A", "A" >> >>,
                      << AAAA, << EndOfToken >> >> >>

\* C13: when train_model has returned, no two operations of the model are
\* the same subword pair.
C13_OperationsDistinct ==
    pc = "done" =>
        \A j, k \in DOMAIN bpe_model.operations :
            j # k => bpe_model.operations[j] # bpe_model.operations[k]

\* C14: when train_model has returned for a Vocabulary of one token of N
\* characters and weight >= 1, with N operations or more allowed, the model
\* has at most N operations and the Word is one subword.
C14_SingleTokenCollapses ==
    \A t \in DOMAIN vocabulary.words :
        (/\ pc = "done"
         /\ DOMAIN vocabulary.words = {t}
         /\ vocabulary.words[t].frequency >= 1
         /\ max_operations >= Len(t)) =>
            /\ Len(bpe_model.operations) <= Len(t)
            /\ vocabulary.words[t].subwords = << t \o << EndOfToken >> >>

\* The Vocabulary of the example LOW=5, LOWER=2, NEWEST=6, WIDEST=3 is being
\* trained with max_subwords = 20.
TrainingLowest ==
    /\ InTraining
    /\ max_subwords = 20
    /\ VocabularyIs(<< "L", "O", "W" >> :> 5
                    @@ << "L", "O", "W", "E", "R" >> :> 2
                    @@ << "N", "E", "W", "E", "S", "T" >> :> 6
                    @@ << "W", "I", "D", "E", "S", "T" >> :> 3)

\* C15 as claimed: in the example the first selected pair has frequency 9
\* when selected, and the first five operations are (E,S), (ES,T), (EST,_),
\* (L,O), (LO,W) in some order.
C15_FirstFiveOperations ==
    TrainingLowest =>
        /\ (pc = "merge" /\ i = 0) => Object(max_bigram[1]).frequency = 9
        /\ Len(bpe_model.operations) >= 5 =>
              Range(SubSeq(bpe_model.operations, 1, 5))
                 = {<< << "E" >>, << "S" >> >>,
                    << << "E", "S" >>, << "T" >> >>,
                    << << "E", "S", "T" >>, << EndOfToken >> >>,
                    << << "L" >>, << "O" >> >>,
                    << << "L", "O" >>, << "W" >> >>}

\* C15 as amended: in the example each of the first three pairs has
\* frequency 9 when selected and the third operation makes the subword EST_,
\* each of the next two pairs has frequency 7 when selected and the fifth
\* operation makes the subword LOW.
C15_FirstFiveFrequencies ==
    TrainingLowest =>
        /\ (pc = "merge" /\ i < 3) => Object(max_bigram[1]).frequency = 9
        /\ (pc = "merge" /\ i \in {3, 4}) => Object(max_bigram[1]).frequency = 7
        /\ Len(bpe_model.operations) >= 3 =>
              Concat(bpe_model.operations[3]) = << "E", "S", "T", EndOfToken >>
        /\ Len(bpe_model.operations) >= 5 =>
              Concat(bpe_model.operations[5]) = << "L", "O", "W" >>

\* The example has been trained to its end with a first operation other
\* than (E,S).
C15_Witness ==
    /\ TrainingLowest
    /\ pc = "done"
    /\ Len(bpe_model.operations) = 9
    /\ bpe_model.operations[1] # << << "E" >>, << "S" >> >>

\* C16: when train_model has ended for a Vocabulary of the single token A
\* and max_subwords >= 2, it has returned the one operation (A,_) and the
\* Word is [A_].
C16_SingleCharacterToken ==
    (/\ pc \in {"done", "error"}
     /\ DOMAIN vocabulary.words = {<< "A" >>}
     /\ max_subwords >= 2) =>
        /\ pc = "done"
        /\ bpe_model.operations = << << << "A" >>, << EndOfToken >> >> >>
        /\ vocabulary.words[<< "A" >>].subwords = << << "A", EndOfToken >> >>

\* The greatest frequency of a Bigram of the bigram dictionary.
MaxFrequency(statistics_) ==
    CHOOSE f \in {statistics_.objects[statistics_.bigrams[q]].frequency :
                     q \in DOMAIN statistics_.bigrams} :
        \A q \in DOMAIN statistics_.bigrams :
            statistics_.objects[statistics_.bigrams[q]].frequency <= f

\* One pair only of the bigram dictionary has the greatest frequency.
UniqueMaximum(statistics_) ==
    Cardinality({q \in DOMAIN statistics_.bigrams :
                    statistics_.objects[statistics_.bigrams[q]].frequency
                       = MaxFrequency(statistics_)}) = 1

\* C17: at the head of an iteration where one pair only has the greatest
\* frequency, max_bigram returns the same Bigram in every iteration order of
\* the search set, so that the model does not depend on the order.
C17_UniqueMaximumDetermines ==
    (/\ pc = "loop"
     /\ i < max_operations
     /\ DOMAIN statistics.bigrams # {}
     /\ UniqueMaximum(statistics)) =>
        LET rebuilt == Rebuilt(statistics)
        IN \A order1, order2 \in IterationOrders(rebuilt.search_set) :
              SearchMax(rebuilt, order1) = SearchMax(rebuilt, order2)

\* The first fields of two lines of the file are the same.
DuplicateToken(lines) ==
    \E j, k \in DOMAIN lines :
        /\ j # k
        /\ split(lines[j]) # << >>
        /\ split(lines[k]) # << >>
        /\ split(lines[j])[1] = split(lines[k])[1]

\* C18: a vocabulary file with the same token on two lines is not loaded:
\* from_vocabulary_file does not return and train_model is not reached.
C18_DuplicateTokenIsFatal ==
    (file # None /\ DuplicateToken(file[1])) => pc # "train"

\* Two lines of the file are the same two fields.
DuplicatePair(lines) ==
    \E j, k \in DOMAIN lines :
        /\ j # k
        /\ Len(split(lines[j])) = 2
        /\ split(lines[j]) = split(lines[k])

\* C19: a model file with the same pair on two lines is not loaded:
\* from_model_file does not return and encode_text is not reached.
C19_DuplicatePairIsFatal ==
    (file # None /\ DuplicatePair(file[1])) => pc # "encode"

\* The tokens, the frequency of every token and the characters are the same.
SameVocabulary(vocabulary1, vocabulary2) ==
    /\ DOMAIN vocabulary1.words = DOMAIN vocabulary2.words
    /\ \A t \in DOMAIN vocabulary1.words :
          vocabulary1.words[t].frequency = vocabulary2.words[t].frequency
    /\ vocabulary1.characters = vocabulary2.characters

\* C20: reading the vocabulary file that Vocabulary.write wrote for a
\* Vocabulary built from text raises nothing and gives a Vocabulary of the
\* same tokens, frequencies and characters.
C20_WriteReadVocabulary ==
    [][pc = "written" =>
          /\ pc' = "read"
          /\ SameVocabulary(vocabulary, vocabulary')]_vars

\* A Vocabulary of two tokens, one with an apostrophe and one counted twice,
\* has been written and read.
C20_Witness ==
    /\ pc = "read"
    /\ \E t \in DOMAIN vocabulary.words : vocabulary.words[t].frequency = 2
    /\ \E t \in DOMAIN vocabulary.words : "'" \in Range(t)
    /\ Len(file[1]) = 2

\* C21: reading the model file that BPEModel.write wrote for the model
\* train_model returned raises nothing and gives the same operations in the
\* same order.
C21_WriteReadModel ==
    [][pc = "model written" =>
          /\ pc' = "model read"
          /\ bpe_model'.operations = bpe_model.operations]_vars

\* A trained model of three different operations or more has been written
\* and read.
C21_Witness ==
    /\ pc = "model read"
    /\ Len(bpe_model.operations) >= 3
    /\ Cardinality(Range(bpe_model.operations)) >= 3
    /\ Len(file[1]) = Len(bpe_model.operations)

\* The characters that occur in some token of the Vocabulary.
TokenCharacters(vocabulary_) == UNION {Range(t) : t \in DOMAIN vocabulary_.words}

EncodedExample ==
    /\ pc = "encoded"
    /\ text = ExampleText
    /\ bpe_model.operations
          = << << << "H" >>, << "E" >> >>,
               << << "L" >>, << "L" >> >>,
               << << "O" >>, << EndOfToken >> >>,
               << << "W" >>, << "O", "R" >> >>,
               << << "L" >>, << "D", EndOfToken >> >> >>

\* C23 as claimed: encoding HELLO WORLD with the operations (H,E), (L,L),
\* (O,_), (W,OR), (L,D_) returns 'HE LL O_ WOR LD_'.
C23_EncodesHelloWorldMerged ==
    EncodedExample =>
        subwords[1] = << "H", "E", " ", "L", "L", " ", "O", "_", " ",
                         "W", "O", "R", " ", "L", "D", "_" >>

\* C23 as amended: encoding HELLO WORLD with the operations (H,E), (L,L),
\* (O,_), (W,OR), (L,D_) returns 'HE LL O_ W O R L D _'.
C23_EncodesHelloWorld ==
    EncodedExample =>
        subwords[1] = << "H", "E", " ", "L", "L", " ", "O", "_", " ",
                         "W", " ", "O", " ", "R", " ", "L", " ", "D", " ", "_" >>

\* The example has been encoded into the subwords of two Words.
C23_Witness ==
    /\ EncodedExample
    /\ Cardinality(DOMAIN vocabulary.words) = 2
    /\ subwords # None

\* The number of places where the subword pair is adjacent in the subwords.
Occurrences(subwords_, subword_pair) ==
    Cardinality({k \in 1..(Len(subwords_) - 1) :
                    << subwords_[k], subwords_[k + 1] >> = subword_pair})

\* C24: after every iteration of the trainer, every token frequency of every
\* Bigram of the bigram dictionary is the number of places where the pair is
\* adjacent in the subwords of the token, times the frequency of the token.
C24_TokenFrequencyCountsOccurrences ==
    (pc = "loop" /\ i > 0) =>
        \A q \in DOMAIN statistics.bigrams :
            \A t \in DOMAIN Entry(q).token_frequency :
                Occurrences(vocabulary.words[t].subwords, q)
                      * vocabulary.words[t].frequency
                   = Entry(q).token_frequency[t]

\* C25: after from_vocabulary and after every iteration of the trainer, the
\* frequency of every Bigram of the bigram dictionary is the sum of its token
\* frequencies, every token frequency is positive and so is the frequency.
C25_FrequencyIsPositiveSum ==
    pc = "loop" =>
        \A q \in DOMAIN statistics.bigrams :
            /\ Entry(q).frequency = SumMap(Entry(q).token_frequency)
            /\ \A t \in DOMAIN Entry(q).token_frequency :
                  Entry(q).token_frequency[t] > 0
            /\ Entry(q).frequency > 0

\* C26: after from_vocabulary and after every iteration of the trainer, a
\* Bigram of the bigram dictionary is in the search set if and only if its
\* frequency is at least the threshold.
C26_SearchSetIsAboveThreshold ==
    pc = "loop" =>
        \A q \in DOMAIN statistics.bigrams :
            statistics.bigrams[q] \in statistics.search_set
               <=> Entry(q).frequency >= statistics.threshold[1]

\* After an iteration the bigram dictionary holds a Bigram that is in the
\* search set and one that is not.
C26_Witness ==
    /\ pc = "loop"
    /\ i > 0
    /\ \E q \in DOMAIN statistics.bigrams :
          statistics.bigrams[q] \in statistics.search_set
    /\ \E q \in DOMAIN statistics.bigrams :
          statistics.bigrams[q] \notin statistics.search_set

\* C27: between the steps of the trainer every Bigram of the search set is
\* the Bigram the bigram dictionary holds for its pair.
C27_SearchSetHoldsDictionaryEntries ==
    pc \in {"loop", "merge", "done"} =>
        \A id \in statistics.search_set :
            /\ Object(id).subword_pair \in DOMAIN statistics.bigrams
            /\ statistics.bigrams[Object(id).subword_pair] = id

\* C28: in every state the in_search_set flag of a Bigram is true if and
\* only if the Bigram is in the search set.
C28_FlagIsMembership ==
    /\ statistics.search_set \subseteq DOMAIN statistics.objects
    /\ \A id \in DOMAIN statistics.objects :
          Object(id).in_search_set <=> id \in statistics.search_set

\* After an iteration there is a Bigram with the flag and one without.
C28_Witness ==
    /\ pc = "loop"
    /\ i > 0
    /\ \E id \in DOMAIN statistics.objects : Object(id).in_search_set
    /\ \E id \in DOMAIN statistics.objects : ~Object(id).in_search_set

\* C29: the updates replace_bigram returns for the Bigram max_bigram has
\* returned have no key that is the pair of the Bigram.
C29_UpdatesLeaveOutMergedPair ==
    pc = "merge" =>
        Object(max_bigram[1]).subword_pair
           \notin DOMAIN replace_bigram(vocabulary, Object(max_bigram[1])).bigram_updates

\* C30: after every iteration of the trainer the bigram dictionary has no
\* key that is the pair the iteration merged.
C30_MergedPairIsGone ==
    (pc = "loop" /\ i > 0) =>
        bpe_model.operations[Len(bpe_model.operations)]
           \notin DOMAIN statistics.bigrams

\* The pair of the operation the trainer has added last.
LastOperation == bpe_model.operations[Len(bpe_model.operations)]

\* C31: after every iteration of the trainer, no Word of the Vocabulary has
\* the first subword of the merged pair immediately followed by its second
\* subword.
C31_NoWordKeepsMergedPair ==
    (pc = "loop" /\ i > 0) =>
        \A t \in DOMAIN vocabulary.words :
            Occurrences(vocabulary.words[t].subwords, LastOperation) = 0

\* C32: after every iteration of the trainer no Bigram of the bigram
\* dictionary has a frequency above max_frequency, the frequency of the pair
\* selected in that iteration, and no pair is selected with a frequency above
\* the frequency of the pair selected before it.
C32_FrequenciesNeverRise ==
    /\ [] ((pc = "loop" /\ i > 0) =>
              \A q \in DOMAIN statistics.bigrams :
                  Entry(q).frequency <= statistics.max_frequency)
    /\ [][(pc = "loop" /\ pc' = "merge" /\ i > 0) =>
              statistics'.max_frequency <= statistics.max_frequency]_vars

\* Two iterations have ended on a vocabulary of two words of weight 1: the
\* pair selected last had frequency 1 and the bigram dictionary still holds
\* a Bigram.
C32_Witness ==
    /\ pc = "loop"
    /\ i = 2
    /\ DOMAIN statistics.bigrams # {}
    /\ statistics.max_frequency = 1
    /\ \A t \in DOMAIN vocabulary.words : vocabulary.words[t].frequency = 1
    /\ Cardinality(DOMAIN vocabulary.words) = 2

RECURSIVE Rebuilds(_)
\* The number of times max_bigram lowers the threshold and rebuilds the
\* search set before it scans it.
Rebuilds(statistics_) ==
    IF statistics_.search_set # {} THEN 0
    ELSE 1 + Rebuilds(build_search_set(set_threshold(statistics_, None)))

\* C33: max_bigram returns None to the trainer exactly when the bigram
\* dictionary is empty; when the dictionary holds a Bigram, the rebuilds of
\* an empty search set end with a search set that holds a Bigram, after at
\* most as many rebuilds as the threshold is above the greatest frequency of
\* the dictionary.
C33_NoneIffEmptyDictionary ==
    /\ [] ((pc = "loop" /\ i < max_operations /\ DOMAIN statistics.bigrams # {}) =>
              /\ Rebuilt(statistics).search_set # {}
              /\ Rebuilds(statistics) <=
                     Max2(0, statistics.threshold[1] - MaxFrequency(statistics)))
    /\ [][(pc = "loop" /\ i < max_operations) =>
              ((max_bigram' = None) <=> (DOMAIN statistics.bigrams = {}))]_vars

\* max_bigram has returned a Bigram after two rebuilds of the search set.
C33_Witness ==
    /\ pc = "merge"
    /\ max_bigram # None
    /\ statistics.adaptation_parameter = 3

RECURSIVE ThresholdsFall(_)
\* Every set_threshold of the rebuilds of max_bigram leaves a threshold below
\* the one it found.
ThresholdsFall(statistics_) ==
    IF statistics_.search_set # {} THEN TRUE
    ELSE LET lowered == set_threshold(statistics_, None)
         IN /\ lowered.threshold[1] < statistics_.threshold[1]
            /\ ThresholdsFall(build_search_set(lowered))

\* C34: set_threshold without a max_frequency leaves a threshold strictly
\* below the previous one, for every previous threshold from 2 to
\* MaxThreshold with every adaptation_parameter from -MaxAdaptation to
\* MaxAdaptation, and in every rebuild of the search set by max_bigram.
C34_UnseededThresholdFalls ==
    /\ \A previous_threshold \in 2..MaxThreshold :
         \A adaptation_parameter \in (-MaxAdaptation)..MaxAdaptation :
            set_threshold([Statistics EXCEPT
                              !.threshold = Some(previous_threshold),
                              !.adaptation_parameter = adaptation_parameter],
                          None).threshold[1] < previous_threshold
    /\ (pc = "loop" /\ i < max_operations /\ DOMAIN statistics.bigrams # {}) =>
           ThresholdsFall(statistics)

\* Training on AAAA: from_vocabulary has left the threshold 2, and max_bigram
\* has lowered it to 1 in one rebuild before the second selection.
C34_Witness ==
    /\ pc = "merge"
    /\ VocabularyIs(AAAA :> 1)
    /\ i = 1
    /\ statistics.threshold = Some(1)
    /\ statistics.adaptation_parameter = 2

C36_ModelIsAppendOnly ==
    /\ [] (pc \in {"loop", "merge", "done"} => Len(bpe_model.operations) = i)
    /\ [][(pc = "merge" =>
              bpe_model'.operations =
                  Append(bpe_model.operations, Object(max_bigram[1]).subword_pair))
          /\ (pc \in {"loop", "done"} =>
                 bpe_model'.operations = bpe_model.operations)]_vars
    /\ [] (pc = "encoded" =>
              \A t \in DOMAIN vocabulary.words :
                 LET operations == bpe_model.operations
                     n == Len(operations)
                 IN \A k \in 1..n :
                       vocabulary.words[t].subwords =
                           apply_model(
                               ApplyOperation(
                                   apply_model(Characters(t), SubSeq(operations, 1, k - 1)),
                                   operations[k], 1),
                               SubSeq(operations, k + 1, n)))

\* train_model has returned a model of two different operations.
C36_Witness ==
    /\ pc = "done"
    /\ i = 2
    /\ bpe_model.operations[1] # bpe_model.operations[2]

\* The string of a token whose per-character mapping the model is applied to
\* once.
AppliedOnce(token) ==
    Join(apply_model(Characters(token), bpe_model.operations), << " " >>)

\* C37: after every encode_text on the Vocabulary the driver shares between
\* the lines of a text file, the string returned is made of the strings of
\* the tokens of the line, each the result of applying the model once to the
\* characters of the token and the end of token, whether the token was seen
\* before or not; the line is the one written last, and every Word of the
\* Vocabulary still has the subwords of a single application.
C37_SharedVocabularyMemoizes ==
    pc \in {"encoded", "encoded next"} =>
        LET tokens == Normalized(text)
        IN /\ subwords[1] =
                 Join([k \in 1..Len(tokens) |-> AppliedOnce(tokens[k])], << " " >>)
           /\ subword_file[Len(subword_file)] = subwords[1] \o << "\n" >>
           /\ \A t \in DOMAIN vocabulary.words :
                 vocabulary.words[t].subwords =
                     apply_model(Characters(t), bpe_model.operations)

\* The second line of the text file is the token of the first line, which
\* the model would change if it were applied to its Word again, and the two
\* lines written are the same.
C37_Witness ==
    /\ pc = "encoded next"
    /\ Len(Normalized(text)) = 1
    /\ DOMAIN vocabulary.words = {Normalized(text)[1]}
    /\ subword_file[1] = subword_file[2]
    /\ \E t \in DOMAIN vocabulary.words :
          apply_model(vocabulary.words[t].subwords, bpe_model.operations)
              # vocabulary.words[t].subwords

\* The number of subwords of all the Words of the Vocabulary.
TotalSymbols(vocabulary_) ==
    SumSeq([k \in 1..Cardinality(DOMAIN vocabulary_.words) |->
               Len(vocabulary_.words[SeqOf(DOMAIN vocabulary_.words)[k]].subwords)])

\* C38: every iteration of the trainer merges a pair that max_bigram
\* returned with a frequency of at least 1, and leaves the Words of the
\* Vocabulary with fewer subwords in all than it found.
C38_EveryOperationMerges ==
    [][(pc = "merge" /\ pc' = "loop") =>
          /\ Object(max_bigram[1]).frequency >= 1
          /\ TotalSymbols(vocabulary') < TotalSymbols(vocabulary)]_vars

\* C39: a step of train_model leaves the tokens of the Vocabulary, the token
\* and the frequency of every Word and the character set as they are, and
\* the replace_bigram of an iteration leaves the subwords of every Word
\* where the first subword of the pair is nowhere followed by the second.
C39_TrainingChangesSubwordsOnly ==
    [][(pc \in {"train", "loop", "merge"}) =>
         (/\ DOMAIN vocabulary'.words = DOMAIN vocabulary.words
          /\ vocabulary'.characters = vocabulary.characters
          /\ \A t \in DOMAIN vocabulary.words :
                /\ vocabulary'.words[t].token = vocabulary.words[t].token
                /\ vocabulary'.words[t].frequency = vocabulary.words[t].frequency
                /\ (pc = "merge"
                    /\ Occurrences(vocabulary.words[t].subwords,
                                   Object(max_bigram[1]).subword_pair) = 0) =>
                       vocabulary'.words[t].subwords = vocabulary.words[t].subwords)]_vars

\* After an iteration on two words of weight 1, one Word has merged subwords
\* and the other, which has no subword of the merged pair, still has its
\* characters.
C39_Witness ==
    /\ pc = "loop"
    /\ i = 1
    /\ \E t, u \in DOMAIN vocabulary.words :
          /\ vocabulary.words[t].frequency = 1
          /\ vocabulary.words[u].frequency = 1
          /\ Len(vocabulary.words[t].subwords) = Len(t)
          /\ vocabulary.words[u].subwords = Characters(u)
          /\ LastOperation[1] \notin Range(vocabulary.words[u].subwords)
====
